---------------------------- MODULE Spec2Model ----------------------------
(***************************************************************************)
(* Model of the patient record store of PG Scanner                         *)
(* (src/PatientDatabase.js) on top of the IndexedDB engine it drives.      *)
(*                                                                         *)
(* A record is a function from field names to values.  Field "id" holds an *)
(* integer key, "createdAt" the instant `new Date().toISOString()` was     *)
(* taken (the ISO text of an instant is one-to-one with the instant, so    *)
(* the instant stands for its text) and "name" a sequence of characters.   *)
(* These are the fields the store's code reads or writes; every other      *)
(* field of a record (age, sex, notes, pdfFilename, pdfBlob) is carried    *)
(* the way "name" is.                                                      *)
(*                                                                         *)
(* Every method of PatientDatabase returns a promise.  The method body     *)
(* (the promise executor) runs synchronously and queues one request in a   *)
(* new transaction; the engine later serves the request and fires          *)
(* onsuccess or onerror, which settles the promise.  Transactions on the   *)
(* one object store are served in creation order (the order IndexedDB      *)
(* gives to transactions with overlapping scope).                          *)
(***************************************************************************)
EXTENDS Integers, Sequences, FiniteSets, TLC

(***************************************************************************)
(* Bounds of the model.                                                    *)
(***************************************************************************)
MaxKey == 2          \* keys range over 1..MaxKey
MaxTime == 1         \* the instants the clock can show range over 0..MaxTime

(***************************************************************************)
(* Program constants.                                                      *)
(***************************************************************************)
version == 1         \* this.version, the schema version asked for by init()

\* The awaiting callers of the store: the handlers of App.js, of which two
\* can have a call in flight at the same time.
Callers == {"ui", "list"}

Keys == 1..MaxKey
Times == 0..MaxTime

Undefined == [k \in {} |-> 0]   \* JavaScript undefined, the result of a get that misses

\* An operation in flight: the method called, the request the engine is to
\* serve next (pc), the method's arguments (id with the type it has, kind;
\* updates, patientData, searchTerm), the clock's reading at the call (date)
\* and the record the next request carries (value); once the transaction
\* has written, what the store was before (undo).  Two fields record what
\* the operation has met of the other callers: the outcomes of the opens
\* that settled while this open was pending (seen), and the callers whose
\* update of the same id has resolved while this update was in flight
\* (overlaps).
NoUndo == [patients |-> Undefined, nextKey |-> 0]

Tx(o, pc, i, v, u) ==
  [op |-> o, pc |-> pc, id |-> i, kind |-> "number", value |-> v, updates |-> u,
   patientData |-> Undefined, date |-> 0, searchTerm |-> << >>, undo |-> NoUndo,
   seen |-> {}, overlaps |-> {}]

NoTx == Tx("none", "none", 0, Undefined, Undefined)

VARIABLES
  db,          \* this.db: "null" until init() succeeds, then "open"
  dbVersion,   \* version of the database on disk (0: does not exist)
  stores,      \* object stores on disk: name -> [keyPath, autoIncrement, indexes]
  patients,    \* content of object store "patients": key -> record
  nextKey,     \* current number of the store's key generator
  tx,          \* per caller: the operation in flight, or NoTx
  order,       \* callers with a transaction in flight, in creation order
  res,         \* per caller: the promise it awaits, until it has resumed on it
  currentPatientData, \* App.js: the form's data captured at Start Camera, or null
  alert,       \* App.js: the message of the alert() on screen, if any
  concurrent,  \* whether a handler calls while another's call is in flight
               \* (it does under SpecConc), or every call is awaited first
  recording,   \* whether the history below is kept (it is under SpecHist)
  everHeld,    \* history: every key a record was ever stored under
  lastInsertId,\* history: the id the latest resolved addPatient returned (0: none)
  live,        \* history: the ids resolved addPatient calls returned, less those
               \* a resolved deletePatient was given since
  lastWrite    \* history: the id and the record of the latest resolved write

vars == << db, dbVersion, stores, patients, nextKey, tx, order, res,
           currentPatientData, alert, concurrent, recording, everHeld, lastInsertId, live, lastWrite >>

disk == << dbVersion, stores, patients, nextKey >>
app == << currentPatientData, alert >>
hist == << concurrent, recording, everHeld, lastInsertId, live, lastWrite >>

(***************************************************************************)
(* Records and helpers.                                                    *)
(***************************************************************************)

\* The promise a method returned, as its caller sees it: the method (op)
\* and the id it was called with (of type kind), who awaits it (by: "save"
\* for the save flow of App.js, "searchBtn" for its search handler), and
\* how the promise settled (status "pending", "resolved" or "rejected";
\* err, the rejection; key, rec, recs, the value resolved with: a key, a
\* record or undefined, a list of records).
Promise(o, i) ==
  [op |-> o, id |-> i, kind |-> "number", by |-> "none", status |-> "pending",
   err |-> "none", key |-> 0, rec |-> Undefined, recs |-> << >>]

NoWrite == [id |-> 0, rec |-> Undefined]

NoRes == [Promise("none", 0) EXCEPT !.status = "none"]

Rejected(p, e) == [p EXCEPT !.status = "rejected", !.err = e]

ResolvedKey(p, k) == [p EXCEPT !.status = "resolved", !.key = k]

ResolvedRec(p, r) == [p EXCEPT !.status = "resolved", !.rec = r]

ResolvedRecs(p, rs) == [p EXCEPT !.status = "resolved", !.recs = rs]

\* { ...a, ...b }: object spread, later keys overwrite earlier ones.
Spread(a, b) ==
  [k \in (DOMAIN a) \cup (DOMAIN b) |-> IF k \in DOMAIN b THEN b[k] ELSE a[k]]

\* The function f with key k bound to v (added or replaced).
Put(f, k, v) == [j \in (DOMAIN f) \cup {k} |-> IF j = k THEN v ELSE f[j]]

\* The function f without key k.
Remove(f, k) == [j \in (DOMAIN f) \ {k} |-> f[j]]

\* Records of the store in ascending key order, as IDBObjectStore.getAll returns them.
RECURSIVE GetAll(_)
GetAll(f) ==
  IF DOMAIN f = {} THEN << >>
  ELSE LET k == CHOOSE k \in DOMAIN f : \A j \in DOMAIN f : k <= j
       IN  << f[k] >> \o GetAll(Remove(f, k))

\* A get through a key range open above: the record under the least key
\* that is at least id.
GetLowerBound(f, id) ==
  IF \E k \in DOMAIN f : k >= id
  THEN f[CHOOSE k \in DOMAIN f : k >= id /\ \A j \in DOMAIN f : j >= id => k <= j]
  ELSE Undefined

\* objectStore.get(id): the record stored under the key, or undefined.
Get(f, id) == IF id \in DOMAIN f THEN f[id] ELSE Undefined

\* The callers that call: the handlers of App.js await every call, and
\* with one handler at a time a single caller has a call in flight.
Main == "ui"

Active == IF concurrent THEN Callers ELSE {Main}

\* null, the value of currentPatientData before the form is captured.
Null == [k \in {} |-> 0]

\* No alert() is on screen.
NoAlert == [text |-> "none", id |-> 0, err |-> "none"]

\* The promise caller c awaits has settled: every call of App.js is
\* awaited (or followed by then and catch), and the caller resumes on the
\* settled promise before any other callback runs.
Resumes(c) == res[c].status \in {"resolved", "rejected"}

\* The event loop is free to run a handler or a callback: no alert() is on
\* screen (alert blocks the page until it is dismissed) and no awaiting
\* function is due to resume.
Free == alert = NoAlert /\ \A c \in Callers : ~Resumes(c)

\* Caller c is free to call: it is awaiting no call of its own.
Idle(c) == Free /\ c \in Active /\ tx[c] = NoTx

\* Caller c is free to call, and is the caller that calls every method:
\* the second caller, there for its calls to overlap the first's, calls
\* init, getAllPatients and updatePatient.
IdleMain(c) == Idle(c) /\ c = Main

\* An engine that serves the transactions in flight in any order.
IsAny(c) == Free /\ \E i \in 1..Len(order) : order[i] = c

\* The transaction of caller c is the one the engine serves: transactions
\* on the one object store run one at a time, in the order of their creation.
IsHead(c) == Free /\ order # << >> /\ order[1] = c

(***************************************************************************)
(* Candidate records and partial updates the callers pass in.              *)
(***************************************************************************)
Jon == <<"J", "o", "n">>
Names == { Jon, <<"1", "E">> }

\* A candidate record without a name (and with none of the fields above).
Nameless == [k \in {} |-> 0]

PatientData ==
  { [name |-> n] : n \in Names }
  \cup { Nameless }
  \cup { [name |-> Jon, id |-> k] : k \in Keys }
  \cup { [name |-> Jon, createdAt |-> t] : t \in Times }

Updates ==
  { [name |-> n] : n \in Names }
  \cup { [createdAt |-> t] : t \in Times }
  \cup { [name |-> Jon, id |-> k] : k \in Keys }

\* A JavaScript value passed for an id: the number n, the string of the
\* decimal digits of n ("1" for 1), or undefined, null or an object.
Value(kind, n) == [kind |-> kind, n |-> n]

\* The values getPatientById is called with.
Ids ==
  { Value("number", k) : k \in Keys }
  \cup { Value("string", k) : k \in Keys }
  \cup { Value("undefined", 0), Value("null", 0), Value("object", 0) }

\* The terms searchPatients is called with.
SearchTerms ==
  { <<"1">>, <<"1", "E">>, <<" ", "O", "N">>, <<"1", ".", "5">>, << >>, <<" ">> }

\* What the search input holds when the search button is clicked.
SearchInputs == { <<" ">>, <<" ", "O", "N">> }

(***************************************************************************)
(* Text, as the code handles it: a string is a sequence of characters.     *)
(***************************************************************************)

\* The lower-case form of a character.
LowerChar(ch) ==
  CASE ch = "J" -> "j"
    [] ch = "O" -> "o"
    [] ch = "N" -> "n"
    [] ch = "E" -> "e"
    [] OTHER -> ch

\* String.prototype.toLowerCase
toLowerCase(s) == [i \in 1..Len(s) |-> LowerChar(s[i])]

IsSpace(ch) == ch = " "

RECURSIVE TrimStart(_)
TrimStart(s) ==
  IF s # << >> /\ IsSpace(Head(s)) THEN TrimStart(Tail(s)) ELSE s

RECURSIVE TrimEnd(_)
TrimEnd(s) ==
  IF s # << >> /\ IsSpace(s[Len(s)]) THEN TrimEnd(SubSeq(s, 1, Len(s) - 1)) ELSE s

\* String.prototype.trim
trim(s) == TrimEnd(TrimStart(s))

\* String.prototype.includes: t occurs in s as a substring.
includes(s, t) ==
  \E i \in 0..(Len(s) - Len(t)) : SubSeq(s, i + 1, i + Len(t)) = t

DigitValue(ch) ==
  CASE ch = "0" -> 0 [] ch = "1" -> 1 [] ch = "2" -> 2 [] ch = "3" -> 3
    [] ch = "4" -> 4 [] ch = "5" -> 5 [] ch = "6" -> 6 [] ch = "7" -> 7
    [] ch = "8" -> 8 [] ch = "9" -> 9

IsDigit(ch) == ch \in {"0", "1", "2", "3", "4", "5", "6", "7", "8", "9"}

\* The longest prefix of s made of digits.
RECURSIVE DigitsPrefix(_)
DigitsPrefix(s) ==
  IF s # << >> /\ IsDigit(Head(s)) THEN << Head(s) >> \o DigitsPrefix(Tail(s)) ELSE << >>

\* The number a sequence of digits writes in base ten.
RECURSIVE ValueOf(_)
ValueOf(ds) ==
  IF ds = << >> THEN 0
  ELSE 10 * ValueOf(SubSeq(ds, 1, Len(ds) - 1)) + DigitValue(ds[Len(ds)])

\* A JavaScript number: NaN, or the integer n.
NaN == [nan |-> TRUE, n |-> 0]

Number(n) == [nan |-> FALSE, n |-> n]

isNaN(x) == x.nan

\* parseInt(s): leading white space is skipped, a sign is taken, and the
\* digits that follow are read up to the first character that is no digit;
\* NaN when no digit is there.  (No term here starts with the radix prefix 0x.)
parseInt(s) ==
  LET t == TrimStart(s)
      signed == t # << >> /\ Head(t) \in {"-", "+"}
      ds == DigitsPrefix(IF signed THEN Tail(t) ELSE t)
  IN  IF ds = << >> THEN NaN
      ELSE IF signed /\ Head(t) = "-" THEN Number(0 - ValueOf(ds))
      ELSE Number(ValueOf(ds))

(***************************************************************************)
(* Initial state: after `new PatientDatabase()` on a device that has no    *)
(* database yet.                                                           *)
(***************************************************************************)
Start ==
  /\ db = "null"
  /\ dbVersion = 0
  /\ stores = << >>
  /\ patients = << >>
  /\ nextKey = 1
  /\ tx = [c \in Callers |-> NoTx]
  /\ order = << >>
  /\ res = [c \in Callers |-> NoRes]
  /\ currentPatientData = Null
  /\ alert = NoAlert
  /\ everHeld = {}
  /\ lastInsertId = 0
  /\ live = {}
  /\ lastWrite = NoWrite

Init == Start /\ recording = FALSE /\ concurrent = FALSE

\* The same, with the history of the run kept.
InitHist == Start /\ recording = TRUE /\ concurrent = FALSE

\* The same, with two handlers calling at the same time.
InitConc == Start /\ recording = FALSE /\ concurrent = TRUE

\* The history moves to `new` when it is kept, and stays as it is otherwise.
Keep(new, old) == IF recording THEN new ELSE old

(***************************************************************************)
(* What every method does first, and what every callback does last.        *)
(***************************************************************************)

\* A method that goes on with a handle that is null.
BeginUnchecked(c, p, t) ==
  /\ res' = [res EXCEPT ![c] = p]
  /\ tx' = [tx EXCEPT ![c] = t]
  /\ order' = Append(order, c)

\* `this.db.transaction(...)` in the promise executor.  With this.db still
\* null the property access throws a TypeError, which the promise
\* constructor turns into a rejection; otherwise a transaction holding one
\* request t is created, behind the transactions already in flight.
Begin(c, p, t) ==
  IF db = "null"
  THEN /\ res' = [res EXCEPT ![c] = Rejected(p, "TypeError")]
       /\ tx' = [tx EXCEPT ![c] = NoTx]
       /\ order' = order
  ELSE /\ res' = [res EXCEPT ![c] = p]
       /\ tx' = [tx EXCEPT ![c] = t]
       /\ order' = Append(order, c)

\* The transaction of caller c is over: it committed, or it aborted.
End(c) ==
  /\ tx' = [tx EXCEPT ![c] = NoTx]
  /\ order' = Tail(order)

\* The operation in flight of caller d, once the operation of caller c has
\* resolved: an update has seen the update of the same id resolve.
Overlapped(d, c) ==
  IF tx[c].op = "update" /\ tx[d].op = "update" /\ tx[d].id = tx[c].id
  THEN [tx[d] EXCEPT !.overlaps = @ \cup {c}]
  ELSE tx[d]

\* The last request of caller c's readwrite transaction has succeeded and
\* written: the transaction is left to commit, and keeps what the store and
\* its key generator were before it, to go back to if the commit fails.
Written(c) ==
  /\ tx' = [d \in Callers |->
              IF d = c
              THEN [tx[c] EXCEPT !.pc = "commit",
                                 !.undo = [patients |-> patients, nextKey |-> nextKey]]
              ELSE Overlapped(d, c)]
  /\ order' = order

\* The engine is serving the request of caller c's method op at step pc.
Serving(c, op, pc) ==
  /\ IsHead(c)
  /\ tx[c].op = op
  /\ tx[c].pc = pc

\* Storing a record under key k moves the key generator past k.
Bump(k) == IF k >= nextKey THEN k + 1 ELSE nextKey

(***************************************************************************)
(* init()                                                                  *)
(***************************************************************************)

\* indexedDB.open(this.dbName, this.version): the open request is pending.
init(c) ==
  /\ Idle(c)
  /\ tx' = [tx EXCEPT ![c] = Tx("init", "open", 0, Undefined, Undefined)]
  /\ res' = [res EXCEPT ![c] = Promise("init", 0)]
  /\ UNCHANGED << db, disk, order, app, hist >>

\* The open request of caller c ends with outcome: the opens of the other
\* callers, still pending, have seen it.
Settled(c, outcome) ==
  [d \in Callers |->
     IF d = c THEN NoTx
     ELSE IF tx[d].op = "init" THEN [tx[d] EXCEPT !.seen = @ \cup {outcome}]
     ELSE tx[d]]

\* An object store created without its indexes.
createObjectStoreBare(s) ==
  Put(s, "patients", [keyPath |-> "id", autoIncrement |-> TRUE, indexes |-> {}])

\* db.createObjectStore("patients", { keyPath: "id", autoIncrement: true })
\* and the two createIndex calls, both { unique: false }.
createObjectStore(s) ==
  Put(s, "patients", [keyPath |-> "id", autoIncrement |-> TRUE,
                      indexes |-> {"name", "createdAt"}])

\* request.onupgradeneeded: the database on disk is older than this.version.
\* Creates the object store with its two indexes unless it is there.
initOnUpgradeNeeded(c) ==
  /\ Free
  /\ tx[c].op = "init"
  /\ tx[c].pc = "open"
  /\ dbVersion < version
  /\ dbVersion' = version
  /\ stores' = IF "patients" \in DOMAIN stores THEN stores
               ELSE createObjectStore(stores)
  /\ tx' = [tx EXCEPT ![c].pc = "upgraded"]
  /\ UNCHANGED << db, patients, nextKey, order, res, app, hist >>

\* request.onsuccess: this.db = request.result; resolve(this.db).
initOnSuccess(c) ==
  /\ Free
  /\ tx[c].op = "init"
  /\ dbVersion = version
  /\ db' = "open"
  /\ tx' = Settled(c, "resolved")
  /\ res' = [res EXCEPT ![c] = [res[c] EXCEPT !.status = "resolved"]]
  /\ UNCHANGED << disk, order, app, hist >>

\* request.onerror: the engine could not open the database; reject(request.error).
initOnError(c) ==
  /\ Free
  /\ tx[c].op = "init"
  /\ tx[c].pc = "open"
  /\ tx' = Settled(c, "rejected")
  /\ res' = [res EXCEPT ![c] = Rejected(res[c], "EngineError")]
  /\ UNCHANGED << db, disk, order, app, hist >>

(***************************************************************************)
(* The keys the model has left.  The key generator has no bound of its     *)
(* own; a call whose record needs a generated key is taken only while a    *)
(* key within 1..MaxKey is sure to be left for it.                         *)
(***************************************************************************)
InFlightIds ==
  { tx[d].value.id : d \in { e \in Callers : "id" \in DOMAIN tx[e].value } }
  \cup { tx[d].updates.id : d \in { e \in Callers : "id" \in DOMAIN tx[e].updates } }

Generating ==
  { d \in Callers : tx[d].op = "add" /\ "id" \notin DOMAIN tx[d].value }

KeyLeft ==
  LET top == CHOOSE m \in InFlightIds \cup {nextKey - 1} :
               \A j \in InFlightIds \cup {nextKey - 1} : j <= m
  IN  top + Cardinality(Generating) < MaxKey

(***************************************************************************)
(* addPatient(patientData)                                                 *)
(***************************************************************************)

\* The method body: the record to add is the caller's data with createdAt
\* set to date, what new Date() reads off the clock at the call;
\* objectStore.add(patient) is queued.
AddPatientBody(c, patientData, date, by) ==
  LET patient == Spread(patientData, [createdAt |-> date])
  IN  Begin(c, [Promise("add", 0) EXCEPT !.by = by],
            [Tx("add", "add", 0, patient, Undefined)
               EXCEPT !.patientData = patientData, !.date = date])

addPatient(c, patientData, date) ==
  /\ IdleMain(c)
  /\ "id" \in DOMAIN patientData \/ KeyLeft
  /\ AddPatientBody(c, patientData, date, "none")
  /\ UNCHANGED << db, disk, app, hist >>

\* The key objectStore.add stores a value under: the store has keyPath "id"
\* and a key generator, so a value that carries an id is stored under it,
\* and any other value under the generator's current number.
KeyFor(value) == IF "id" \in DOMAIN value THEN value.id ELSE nextKey

\* request.onsuccess of add: the engine stored the record under its key,
\* written into the stored record at the key path; resolve(request.result).
addOnSuccess(c) ==
  /\ Serving(c, "add", "add")
  /\ LET key == KeyFor(tx[c].value)
     IN  /\ key \notin DOMAIN patients
         /\ patients' = Put(patients, key, Spread(tx[c].value, [id |-> key]))
         /\ nextKey' = Bump(key)
         /\ res' = [res EXCEPT ![c] = ResolvedKey(res[c], key)]
         /\ everHeld' = Keep(everHeld \cup {key}, everHeld)
         /\ lastInsertId' = Keep(key, lastInsertId)
         /\ live' = Keep(live \cup {key}, live)
         /\ lastWrite' = Keep([id |-> key,
                               rec |-> Spread(tx[c].patientData,
                                              [createdAt |-> tx[c].date, id |-> key])],
                              lastWrite)
  /\ Written(c)
  /\ UNCHANGED << db, dbVersion, stores, app, concurrent, recording >>

\* A request that stores its record and then reports an error.
FailedAfterWriting(f, k, v) == Put(f, k, v)

\* What a request to store v under key k leaves of the store when it
\* fails: the store as it was, the request's transaction aborts.
Failed(f, k, v) == f

\* request.onerror of add: a record is stored under the key already
\* (ConstraintError), or the engine failed; reject(request.error).  The
\* transaction aborts and nothing is stored.
addOnError(c) ==
  /\ Serving(c, "add", "add")
  /\ \E e \in {"ConstraintError", "EngineError"} :
       /\ e = "ConstraintError" => KeyFor(tx[c].value) \in DOMAIN patients
       /\ res' = [res EXCEPT ![c] = Rejected(res[c], e)]
  /\ patients' = Failed(patients, KeyFor(tx[c].value), tx[c].value)
  /\ End(c)
  /\ UNCHANGED << db, dbVersion, stores, nextKey, app, hist >>

(***************************************************************************)
(* getAllPatients()                                                        *)
(***************************************************************************)

\* The method body: objectStore.getAll() is queued in a readonly transaction.
getAllPatients(c) ==
  /\ Idle(c)
  /\ Begin(c, Promise("getAll", 0), Tx("getAll", "getAll", 0, Undefined, Undefined))
  /\ UNCHANGED << db, disk, app, hist >>

\* request.onsuccess: resolve(request.result).
getAllOnSuccess(c) ==
  /\ Serving(c, "getAll", "getAll")
  /\ res' = [res EXCEPT ![c] = ResolvedRecs(res[c], GetAll(patients))]
  /\ End(c)
  /\ UNCHANGED << db, disk, app, hist >>

\* request.onerror: reject(request.error).
getAllOnError(c) ==
  /\ Serving(c, "getAll", "getAll")
  /\ res' = [res EXCEPT ![c] = Rejected(res[c], "EngineError")]
  /\ End(c)
  /\ UNCHANGED << db, disk, app, hist >>

(***************************************************************************)
(* getPatientById(id)                                                      *)
(***************************************************************************)

\* The values the engine takes for keys: numbers and strings (dates, binary
\* data and arrays are not passed here); objectStore.get throws a DataError
\* for any other.
IsValidKey(id) == id.kind \in {"number", "string"}

\* The method body: objectStore.get(id) is queued in a readonly transaction,
\* unless get throws, which rejects the promise.
getPatientById(c, id) ==
  /\ IdleMain(c)
  /\ LET p == [Promise("get", id.n) EXCEPT !.kind = id.kind]
     IN  IF db # "null" /\ ~IsValidKey(id)
         THEN /\ res' = [res EXCEPT ![c] = Rejected(p, "DataError")]
              /\ tx' = [tx EXCEPT ![c] = NoTx]
              /\ order' = order
         ELSE Begin(c, p, [Tx("get", "get", id.n, Undefined, Undefined)
                             EXCEPT !.kind = id.kind])
  /\ UNCHANGED << db, disk, app, hist >>

\* The record the store holds under a key: keys of different types are
\* never equal, and the keys of the stored records are numbers.
GetByKey(f, kind, n) == IF kind = "number" THEN Get(f, n) ELSE Undefined

\* A get that takes the record it returns out of the store.
getOnSuccessTaking(c) ==
  /\ Serving(c, "get", "get")
  /\ res' = [res EXCEPT ![c] =
               ResolvedRec(res[c], GetByKey(patients, tx[c].kind, tx[c].id))]
  /\ patients' = IF tx[c].kind = "number" THEN Remove(patients, tx[c].id)
                 ELSE patients
  /\ End(c)
  /\ UNCHANGED << db, dbVersion, stores, nextKey, app, hist >>

\* request.onsuccess: resolve(request.result), undefined when no record has the key.
getOnSuccess(c) ==
  /\ Serving(c, "get", "get")
  /\ res' = [res EXCEPT ![c] =
               ResolvedRec(res[c], GetByKey(patients, tx[c].kind, tx[c].id))]
  /\ End(c)
  /\ UNCHANGED << db, disk, app, hist >>

\* request.onerror: reject(request.error).
getOnError(c) ==
  /\ Serving(c, "get", "get")
  /\ res' = [res EXCEPT ![c] = Rejected(res[c], "EngineError")]
  /\ End(c)
  /\ UNCHANGED << db, disk, app, hist >>

(***************************************************************************)
(* searchPatients(searchTerm)                                              *)
(***************************************************************************)

\* The method body: objectStore.getAll() is queued in a readonly transaction.
SearchPatientsBody(c, searchTerm, by) ==
  Begin(c, [Promise("search", 0) EXCEPT !.by = by],
        [Tx("search", "getAll", 0, Undefined, Undefined)
           EXCEPT !.searchTerm = searchTerm])

searchPatients(c, searchTerm) ==
  /\ IdleMain(c)
  /\ SearchPatientsBody(c, searchTerm, "none")
  /\ UNCHANGED << db, disk, app, hist >>

\* if (searchTerm): the trimmed input is not the empty string.
NonEmpty(searchTerm) == searchTerm # << >>

\* searchBtn click: the input's value is trimmed and, unless nothing is
\* left of it, searched for; the handler awaits the result.
searchBtnClick(c, value) ==
  /\ IdleMain(c)
  /\ LET searchTerm == trim(value)
     IN  IF NonEmpty(searchTerm)
         THEN SearchPatientsBody(c, searchTerm, "searchBtn")
         ELSE UNCHANGED << tx, order, res >>
  /\ UNCHANGED << db, disk, app, hist >>

\* !isNaN(searchId) && p.id === searchId
IdMatches(p, searchId) == ~isNaN(searchId) /\ p.id = searchId.n

\* The callback of patients.filter: true for a record whose id is searchId,
\* and else for one whose name, in lower case, includes the term.
FilterCallback(p, searchId, lowerSearchTerm) ==
  IF IdMatches(p, searchId) THEN TRUE
  ELSE includes(toLowerCase(p.name), lowerSearchTerm)

\* p.name.toLowerCase() throws a TypeError: the callback gets as far as the
\* name of a record that has none.
FilterThrows(recs, searchId) ==
  \E i \in 1..Len(recs) :
    ~IdMatches(recs[i], searchId) /\ "name" \notin DOMAIN recs[i]

\* patients.filter(...) for the term searched.
Filter(recs, searchTerm) ==
  LET lowerSearchTerm == trim(toLowerCase(searchTerm))
      searchId == parseInt(searchTerm)
  IN  SelectSeq(recs, LAMBDA p : FilterCallback(p, searchId, lowerSearchTerm))

\* request.onsuccess: resolve(filtered).
searchOnSuccess(c) ==
  /\ Serving(c, "search", "getAll")
  /\ ~FilterThrows(GetAll(patients), parseInt(tx[c].searchTerm))
  /\ res' = [res EXCEPT ![c] =
               ResolvedRecs(res[c], Filter(GetAll(patients), tx[c].searchTerm))]
  /\ End(c)
  /\ UNCHANGED << db, disk, app, hist >>

\* request.onsuccess when the filter throws: the exception leaves the
\* callback, neither resolve nor reject is called, and the transaction ends.
searchOnSuccessThrows(c) ==
  /\ Serving(c, "search", "getAll")
  /\ FilterThrows(GetAll(patients), parseInt(tx[c].searchTerm))
  /\ End(c)
  /\ UNCHANGED << db, disk, res, app, hist >>

\* request.onerror: reject(request.error).
searchOnError(c) ==
  /\ Serving(c, "search", "getAll")
  /\ res' = [res EXCEPT ![c] = Rejected(res[c], "EngineError")]
  /\ End(c)
  /\ UNCHANGED << db, disk, app, hist >>

(***************************************************************************)
(* updatePatient(id, updates)                                              *)
(***************************************************************************)

\* The method body: objectStore.get(id) is queued in a readwrite transaction.
updatePatient(c, id, updates) ==
  /\ Idle(c)
  /\ Begin(c, Promise("update", id),
           Tx("update", "get", id, Undefined, updates))
  /\ UNCHANGED << db, disk, app, hist >>

\* updatedPatient = { ...patient, ...updates }
Merge(patient, updates) == Spread(patient, updates)

\* An update that never looks whether the record is there.
FoundAlways(patient) == TRUE

\* if (patient): the get found a record.
Found(patient) == patient # Undefined

\* getRequest.onsuccess with a record: objectStore.put(updatedPatient) is
\* queued in the same transaction.
updateGetOnSuccessFound(c) ==
  /\ Serving(c, "update", "get")
  /\ Found(Get(patients, tx[c].id))
  /\ tx' = [tx EXCEPT ![c].pc = "put",
                      ![c].value = Merge(Get(patients, tx[c].id), tx[c].updates)]
  /\ UNCHANGED << db, disk, order, res, app, hist >>

\* getRequest.onsuccess without a record: reject(new Error("Patient not found")).
updateGetOnSuccessMissing(c) ==
  /\ Serving(c, "update", "get")
  /\ ~Found(Get(patients, tx[c].id))
  /\ res' = [res EXCEPT ![c] = Rejected(res[c], "Patient not found")]
  /\ End(c)
  /\ UNCHANGED << db, disk, app, hist >>

\* getRequest.onerror: reject(getRequest.error).
updateGetOnError(c) ==
  /\ Serving(c, "update", "get")
  /\ res' = [res EXCEPT ![c] = Rejected(res[c], "EngineError")]
  /\ End(c)
  /\ UNCHANGED << db, disk, app, hist >>

\* updateRequest.onsuccess: the engine stored updatedPatient under the key
\* found at its key path, replacing the record stored there if any;
\* resolve(updatedPatient).
updatePutOnSuccess(c) ==
  /\ Serving(c, "update", "put")
  /\ LET updatedPatient == tx[c].value
         key == updatedPatient.id
     IN  /\ patients' = Put(patients, key, updatedPatient)
         /\ nextKey' = Bump(key)
         /\ res' = [res EXCEPT ![c] = ResolvedRec(res[c], updatedPatient)]
         /\ everHeld' = Keep(everHeld \cup {key}, everHeld)
         /\ lastWrite' = Keep([id |-> tx[c].id, rec |-> updatedPatient], lastWrite)
  /\ Written(c)
  /\ UNCHANGED << db, dbVersion, stores, app, concurrent, recording, lastInsertId, live >>

\* updateRequest.onerror: reject(updateRequest.error); the transaction aborts.
updatePutOnError(c) ==
  /\ Serving(c, "update", "put")
  /\ res' = [res EXCEPT ![c] = Rejected(res[c], "EngineError")]
  /\ patients' = Failed(patients, tx[c].value.id, tx[c].value)
  /\ End(c)
  /\ UNCHANGED << db, dbVersion, stores, nextKey, app, hist >>

(***************************************************************************)
(* deletePatient(id)                                                       *)
(***************************************************************************)

\* The method body: objectStore.delete(id) is queued in a readwrite transaction.
deletePatient(c, id) ==
  /\ IdleMain(c)
  /\ Begin(c, Promise("delete", id), Tx("delete", "delete", id, Undefined, Undefined))
  /\ UNCHANGED << db, disk, app, hist >>

\* objectStore.clear() in the place of delete: no record is left.
Clear(f, id) == Undefined

\* What objectStore.delete(id) leaves of the store: every record but the
\* one under the key.
Delete(f, id) == Remove(f, id)

\* A delete that takes a key holding no record for an error.
DeleteErrorsNotFound(f, id) ==
  IF id \in DOMAIN f THEN {"EngineError"} ELSE {"EngineError", "NotFound"}

\* The errors the delete request can end with: a failure of the engine
\* only; a key that holds no record is no error.
DeleteErrors(f, id) == {"EngineError"}

\* request.onsuccess: resolve().
deleteOnSuccess(c) ==
  /\ Serving(c, "delete", "delete")
  /\ patients' = Delete(patients, tx[c].id)
  /\ live' = Keep(live \ {tx[c].id}, live)
  /\ lastWrite' = Keep(IF lastWrite.id = tx[c].id THEN NoWrite ELSE lastWrite, lastWrite)
  /\ res' = [res EXCEPT ![c] = [res[c] EXCEPT !.status = "resolved"]]
  /\ Written(c)
  /\ UNCHANGED << db, dbVersion, stores, nextKey, app, concurrent, recording, everHeld, lastInsertId >>

\* request.onerror: reject(request.error).
deleteOnError(c) ==
  /\ Serving(c, "delete", "delete")
  /\ \E e \in DeleteErrors(patients, tx[c].id) :
       res' = [res EXCEPT ![c] = Rejected(res[c], e)]
  /\ End(c)
  /\ UNCHANGED << db, disk, app, hist >>

(***************************************************************************)
(* The save flow of App.js: the Start Camera handler captures the form,    *)
(* exportToPDFWithPatient() exports the report and saves the record.  The  *)
(* report's pdfFilename and pdfBlob are set on the captured data and       *)
(* carried into the record the way the other fields are.                   *)
(***************************************************************************)

\* What the form holds when it passes validatePatientForm(): a name that
\* is not empty.
FormData == { [name |-> Jon] }

\* StartCamBtn click: the validated form is captured.
startCamera(data) ==
  /\ Free
  /\ currentPatientData' = data
  /\ UNCHANGED << db, disk, tx, order, res, alert, hist >>

\* exportToPDFWithPatient(), up to its first await: without captured data
\* it alerts and returns; with them it awaits exportToPDF().
exportToPDFWithPatient(c) ==
  /\ IdleMain(c)
  /\ IF currentPatientData = Null
     THEN /\ alert' = [NoAlert EXCEPT !.text = "Patient data not found"]
          /\ tx' = tx
     ELSE /\ alert' = alert
          /\ tx' = [tx EXCEPT ![c] = Tx("save", "export", 0, Undefined, Undefined)]
  /\ UNCHANGED << db, disk, order, res, currentPatientData, hist >>

\* exportToPDF() resolved: await patientDB.addPatient(currentPatientData).
exportToPDFOnResolved(c, date) ==
  /\ Free
  /\ tx[c].op = "save"
  /\ KeyLeft
  /\ AddPatientBody(c, currentPatientData, date, "save")
  /\ UNCHANGED << db, disk, app, hist >>

\* exportToPDF() rejected: the catch block alerts.
exportToPDFOnRejected(c) ==
  /\ Free
  /\ tx[c].op = "save"
  /\ tx' = [tx EXCEPT ![c] = NoTx]
  /\ alert' = [NoAlert EXCEPT !.text = "failed to save patient record",
                              !.err = "ExportError"]
  /\ UNCHANGED << db, disk, order, res, currentPatientData, hist >>

\* An await that never throws.
CaughtNever(p) == FALSE

\* await on a promise that was rejected throws, into the catch block.
Caught(p) == p.status = "rejected"

\* The awaited addPatient has settled: the flow resumes, with the alert
\* of the try block (the record's id in it) or with that of the catch
\* block (the error's message in it).
addPatientAwaited(c) ==
  /\ alert = NoAlert
  /\ Resumes(c)
  /\ res[c].by = "save"
  /\ alert' = IF Caught(res[c])
              THEN [NoAlert EXCEPT !.text = "failed to save patient record",
                                   !.err = res[c].err]
              ELSE [NoAlert EXCEPT !.text = "Patient record saved successfully",
                                   !.id = res[c].key]
  /\ res' = [res EXCEPT ![c] = NoRes]
  /\ UNCHANGED << db, disk, tx, order, currentPatientData, hist >>

\* Any other awaited call has settled: the handler resumes with the result
\* (it renders the list, shows the record, logs the error) and ends.
awaited(c) ==
  /\ alert = NoAlert
  /\ Resumes(c)
  /\ res[c].by # "save"
  /\ res' = [res EXCEPT ![c] = NoRes]
  /\ UNCHANGED << db, disk, tx, order, app, hist >>

\* The user dismisses the alert: alert() returns and the handler ends.
alertDismissed ==
  /\ alert # NoAlert
  /\ alert' = NoAlert
  /\ UNCHANGED << db, disk, tx, order, res, currentPatientData, hist >>

(***************************************************************************)
(* The end of a readwrite transaction that has written.  The methods       *)
(* listen to their requests only, not to the transaction: they have        *)
(* settled their promise when the transaction commits or aborts.           *)
(***************************************************************************)

\* The store after a transaction has aborted: as it was before the transaction.
Rollback(before, after) == before

\* transaction complete: the engine has committed what the transaction wrote.
transactionOnComplete(c) ==
  /\ IsHead(c)
  /\ tx[c].pc = "commit"
  /\ End(c)
  /\ UNCHANGED << db, disk, res, app, hist >>

\* transaction abort: the commit failed (the quota is exceeded, the disk
\* fails); the engine undoes what the transaction wrote and puts the key
\* generator back.
transactionOnAbort(c) ==
  /\ IsHead(c)
  /\ tx[c].pc = "commit"
  /\ patients' = Rollback(tx[c].undo.patients, patients)
  /\ nextKey' = Rollback(tx[c].undo.nextKey, nextKey)
  /\ End(c)
  /\ UNCHANGED << db, dbVersion, stores, res, app, hist >>

(***************************************************************************)
(* The specification.                                                      *)
(***************************************************************************)
Next ==
  \/ \E c \in Callers : init(c)
  \/ \E c \in Callers : initOnUpgradeNeeded(c)
  \/ \E c \in Callers : initOnSuccess(c)
  \/ \E c \in Callers : initOnError(c)
  \/ \E c \in Callers, patientData \in PatientData, date \in Times :
       addPatient(c, patientData, date)
  \/ \E c \in Callers : addOnSuccess(c)
  \/ \E c \in Callers : addOnError(c)
  \/ \E c \in Callers : getAllPatients(c)
  \/ \E c \in Callers : getAllOnSuccess(c)
  \/ \E c \in Callers : getAllOnError(c)
  \/ \E c \in Callers, id \in Ids : getPatientById(c, id)
  \/ \E c \in Callers : getOnSuccess(c)
  \/ \E c \in Callers : getOnError(c)
  \/ \E c \in Callers, searchTerm \in SearchTerms : searchPatients(c, searchTerm)
  \/ \E c \in Callers, value \in SearchInputs : searchBtnClick(c, value)
  \/ \E c \in Callers : searchOnSuccess(c)
  \/ \E c \in Callers : searchOnSuccessThrows(c)
  \/ \E c \in Callers : searchOnError(c)
  \/ \E c \in Callers, id \in Keys, updates \in Updates : updatePatient(c, id, updates)
  \/ \E c \in Callers : updateGetOnSuccessFound(c)
  \/ \E c \in Callers : updateGetOnSuccessMissing(c)
  \/ \E c \in Callers : updateGetOnError(c)
  \/ \E c \in Callers : updatePutOnSuccess(c)
  \/ \E c \in Callers : updatePutOnError(c)
  \/ \E c \in Callers, id \in Keys : deletePatient(c, id)
  \/ \E c \in Callers : deleteOnSuccess(c)
  \/ \E c \in Callers : deleteOnError(c)
  \/ \E c \in Callers : transactionOnComplete(c)
  \/ \E c \in Callers : transactionOnAbort(c)
  \/ \E data \in FormData : startCamera(data)
  \/ \E c \in Callers : exportToPDFWithPatient(c)
  \/ \E c \in Callers, date \in Times : exportToPDFOnResolved(c, date)
  \/ \E c \in Callers : exportToPDFOnRejected(c)
  \/ \E c \in Callers : addPatientAwaited(c)
  \/ \E c \in Callers : awaited(c)
  \/ alertDismissed

Spec == Init /\ [][Next]_vars

SpecHist == InitHist /\ [][Next]_vars

SpecConc == InitConc /\ [][Next]_vars

(***************************************************************************)
(* What the claims are stated with.                                        *)
(***************************************************************************)

\* The operation of caller c takes a step.
Steps(c) == tx'[c] # tx[c]

\* The promise of caller c's method op is pending and resolves in this step.
Resolves(c, op) ==
  /\ res[c].op = op
  /\ res[c].status = "pending"
  /\ res'[c].status = "resolved"

\* The ids of the records of a list.
IdsOf(recs) == { recs[i].id : i \in 1..Len(recs) }

(***************************************************************************)
(* C1.  getAll() resolves with exactly the records that were inserted and  *)
(* not deleted since, each with its latest merged field values: the ids of *)
(* the list are the ids insert returned, less the ids deleted since, each  *)
(* once, and the record written last is in the list under the id it was    *)
(* written for.  On a store with no records it resolves with the empty     *)
(* list.  The first insert into a fresh store returns id 1.                *)
(***************************************************************************)
C1_GetAllReturnsLiveRecords ==
  [][\A c \in Callers :
       /\ (Serving(c, "getAll", "getAll") /\ Steps(c) /\ res'[c].err # "EngineError")
            => /\ res'[c].status = "resolved"
               /\ IdsOf(res'[c].recs) = live
               /\ Len(res'[c].recs) = Cardinality(live)
               /\ lastWrite.id \in live
                    => \E i \in 1..Len(res'[c].recs) :
                         /\ res'[c].recs[i].id = lastWrite.id
                         /\ res'[c].recs[i] = lastWrite.rec
               /\ patients = Undefined => res'[c].recs = << >>
       /\ (Resolves(c, "add") /\ everHeld = {} /\ "id" \notin DOMAIN tx[c].patientData)
            => res'[c].key = 1
    ]_vars

(***************************************************************************)
(* C2.  The ids insert returns are strictly increasing in insertion order  *)
(* (and so pairwise distinct): each is greater than the one before.        *)
(***************************************************************************)
C2_InsertIdsIncrease ==
  [][\A c \in Callers : Resolves(c, "add") => res'[c].key > lastInsertId]_vars

(***************************************************************************)
(* C3.  An id is never reused: the id a new insert is given differs from   *)
(* every id a record ever held, those of deleted records included.         *)
(***************************************************************************)
C3_InsertIdNeverReused ==
  [][\A c \in Callers : Resolves(c, "add") => res'[c].key \notin everHeld]_vars

(***************************************************************************)
(* C4.  insert ignores caller-supplied identity fields: the record is      *)
(* stored under the key the store assigns (the current number of its key   *)
(* generator), which is the id insert returns and the id of the stored     *)
(* record, and its createdAt is the store-side time of the insert,         *)
(* whatever id and createdAt the candidate carries.                        *)
(***************************************************************************)
C4_InsertIgnoresCallerIdentity ==
  [][\A c \in Callers :
       Resolves(c, "add")
         => /\ res'[c].key = nextKey
            /\ nextKey \in DOMAIN patients'
            /\ patients'[nextKey].id = nextKey
            /\ patients'[nextKey].createdAt = tx[c].date
    ]_vars

(***************************************************************************)
(* C5.  update never changes identity fields: after update(id, fields) the *)
(* record is still stored under id, with the id and the createdAt it had,  *)
(* and no record appears under another id, whatever keys fields carries.   *)
(***************************************************************************)
C5_UpdateKeepsIdentity ==
  [][\A c \in Callers :
       Resolves(c, "update")
         => /\ tx[c].id \in DOMAIN patients'
            /\ patients'[tx[c].id].id = tx[c].id
            /\ patients'[tx[c].id].createdAt = patients[tx[c].id].createdAt
            /\ DOMAIN patients' = DOMAIN patients
    ]_vars

(***************************************************************************)
(* C6.  update(id, fields) on an existing record is a shallow merge: every *)
(* non-identity key of fields takes the value supplied, every field not    *)
(* supplied keeps its value, the call resolves with the merged record, and *)
(* the merged record is what is then stored under id (what a getById(id)   *)
(* that follows returns).                                                  *)
(***************************************************************************)
C6_UpdateIsShallowMerge ==
  [][\A c \in Callers :
       Resolves(c, "update")
         => LET old == patients[tx[c].id]
                fields == tx[c].updates
                merged == res'[c].rec
            IN  /\ DOMAIN merged = (DOMAIN old) \cup (DOMAIN fields)
                /\ \A k \in (DOMAIN fields) \ {"id", "createdAt"} : merged[k] = fields[k]
                /\ \A k \in (DOMAIN old) \ (DOMAIN fields) : merged[k] = old[k]
                /\ tx[c].id \in DOMAIN patients'
                /\ patients'[tx[c].id] = merged
    ]_vars

(***************************************************************************)
(* C7.  update(id, fields) for an id that has no stored record rejects     *)
(* with the not-found error and leaves the store as it was: no record is   *)
(* created and none is modified.  (The one other way the call can end is   *)
(* a failure of the engine, which also leaves the store as it was.)        *)
(***************************************************************************)
C7_UpdateMissingRejects ==
  [][\A c \in Callers :
       (Serving(c, "update", "get") /\ Steps(c) /\ tx[c].id \notin DOMAIN patients)
         => /\ res'[c].status = "rejected"
            /\ res'[c].err \in {"Patient not found", "EngineError"}
            /\ tx'[c] = NoTx
            /\ patients' = patients
            /\ nextKey' = nextKey
    ]_vars

\* An update of an id that holds no record was rejected as not found, on a
\* store that holds another record.
C7_Witness ==
  \E c \in Callers :
    /\ res[c].op = "update"
    /\ res[c].status = "rejected"
    /\ res[c].err = "Patient not found"
    /\ res[c].id \notin DOMAIN patients
    /\ patients # Undefined

(***************************************************************************)
(* C8.  delete is idempotent: for every id, with or without a record       *)
(* under it, delete(id) resolves (it is rejected only when the engine      *)
(* fails) and leaves no record under id; a delete of an id that holds no   *)
(* record, such as the second of two deletes, leaves the store as it was.  *)
(***************************************************************************)
C8_DeleteIdempotent ==
  [][\A c \in Callers :
       (Serving(c, "delete", "delete") /\ Steps(c))
         => \/ /\ res'[c].status = "rejected"
               /\ res'[c].err = "EngineError"
               /\ patients' = patients
            \/ /\ res'[c].status = "resolved"
               /\ tx[c].id \notin DOMAIN patients'
               /\ tx[c].id \notin DOMAIN patients
                    => patients' = patients /\ nextKey' = nextKey
    ]_vars

\* A delete resolved on a store that never held a record: the id it was
\* given held none.
C8_Witness ==
  \E c \in Callers :
    /\ res[c].op = "delete"
    /\ res[c].status = "resolved"
    /\ db = "open"
    /\ nextKey = 1

(***************************************************************************)
(* C9.  delete(id) removes only the record under id: every other record    *)
(* stays, under its id and with all its fields, and none appears.          *)
(***************************************************************************)
C9_DeleteRemovesOnlyThatRecord ==
  [][\A c \in Callers :
       Resolves(c, "delete")
         => /\ DOMAIN patients' = (DOMAIN patients) \ {tx[c].id}
            /\ \A k \in (DOMAIN patients) \ {tx[c].id} : patients'[k] = patients[k]
    ]_vars

\* Of two records the first was deleted: the second is there, under its id.
C9_Witness ==
  \E c \in Callers :
    /\ res[c].op = "delete"
    /\ res[c].status = "resolved"
    /\ res[c].id = 1
    /\ DOMAIN patients = {2}
    /\ patients[2].id = 2

(***************************************************************************)
(* C10.  getById(id), id an integer, on an opened store resolves with the  *)
(* record stored under id when there is one, and with the empty result     *)
(* when there is none; it is rejected only when the engine fails.          *)
(***************************************************************************)
C10_GetByIdFindsOrIsEmpty ==
  [][\A c \in Callers :
       (Serving(c, "get", "get") /\ Steps(c) /\ tx[c].kind = "number")
         => \/ res'[c].status = "rejected" /\ res'[c].err = "EngineError"
            \/ /\ res'[c].status = "resolved"
               /\ res'[c].rec = IF tx[c].id \in DOMAIN patients
                                THEN patients[tx[c].id]
                                ELSE Undefined
    ]_vars

\* A getById of an id that holds no record resolved with the empty result,
\* on a store that holds another record.
C10_Witness ==
  \E c \in Callers :
    /\ res[c].op = "get"
    /\ res[c].kind = "number"
    /\ res[c].status = "resolved"
    /\ res[c].rec = Undefined
    /\ res[c].id \notin DOMAIN patients
    /\ patients # Undefined

\* The whole of s read as an integer: s is a sign, if any, and digits, and
\* nothing else; NaN otherwise.
ParseWhole(s) ==
  LET signed == s # << >> /\ Head(s) \in {"-", "+"}
      body == IF signed THEN Tail(s) ELSE s
  IN  IF body # << >> /\ DigitsPrefix(body) = body THEN parseInt(s) ELSE NaN

\* The name of record p, in lower case, contains the term, in lower case.
NameContains(p, term) ==
  "name" \in DOMAIN p /\ includes(toLowerCase(p.name), toLowerCase(term))

\* The keys of the records that match the term: the record whose id is the
\* integer the term is, and every record whose name contains the term.
Matching(f, term) ==
  { k \in DOMAIN f :
      \/ ~isNaN(ParseWhole(term)) /\ k = ParseWhole(term).n
      \/ NameContains(f[k], term) }

(***************************************************************************)
(* C12.  search(term) resolves with exactly the union of the record whose  *)
(* id is the integer the term parses to, if it parses to an integer, and   *)
(* every record whose lower-cased name contains the lower-cased trimmed    *)
(* term: every matching record is in the result, once, as it is stored,    *)
(* and no other record is.                                                 *)
(***************************************************************************)
C12_SearchReturnsUnion ==
  [][\A c \in Callers :
       Resolves(c, "search")
         => LET recs == res'[c].recs
                matching == Matching(patients, trim(tx[c].searchTerm))
            IN  /\ IdsOf(recs) = matching
                /\ Len(recs) = Cardinality(matching)
                /\ \A i \in 1..Len(recs) : recs[i] = patients[recs[i].id]
    ]_vars

(***************************************************************************)
(* C13.  search matches a record by id only on exact numeric equality with *)
(* the term: a record of the result whose name does not contain the term   *)
(* has the id that the trimmed term, as a whole, is as an integer; a term  *)
(* that is digits followed by other characters, or a decimal, selects no   *)
(* record by id.                                                           *)
(***************************************************************************)
C13_SearchIdIsExact ==
  [][\A c \in Callers :
       Resolves(c, "search")
         => LET term == trim(tx[c].searchTerm)
            IN  \A i \in 1..Len(res'[c].recs) :
                  \/ NameContains(res'[c].recs[i], term)
                  \/ /\ ~isNaN(ParseWhole(term))
                     /\ res'[c].recs[i].id = ParseWhole(term).n
    ]_vars

(***************************************************************************)
(* C11.  getById called on an opened store with an argument that is not of *)
(* the integer type of the ids (a string such as "1", or undefined, null   *)
(* or an object) neither throws nor rejects: the call leaves the promise   *)
(* pending, and the promise resolves with the empty result (it is rejected *)
(* only when the engine fails), never with the record whose id is the      *)
(* number the argument looks like.                                         *)
(***************************************************************************)
C11_GetByIdTypeMismatchIsEmpty ==
  [][\A c \in Callers :
       /\ (/\ Idle(c) /\ db = "open"
           /\ res'[c] # res[c]
           /\ res'[c].op = "get" /\ res'[c].kind # "number")
            => res'[c].status = "pending"
       /\ (Serving(c, "get", "get") /\ Steps(c) /\ tx[c].kind # "number")
            => \/ res'[c].status = "rejected" /\ res'[c].err = "EngineError"
               \/ res'[c].status = "resolved" /\ res'[c].rec = Undefined
    ]_vars

\* The methods other than init.
Operations == {"add", "getAll", "get", "search", "update", "delete"}

\* The methods that write.
Writes == {"add", "update", "delete"}

\* Caller c calls a method in this step: a promise is made.
Calls(c) == Idle(c) /\ res'[c] # res[c]

(***************************************************************************)
(* C14.  Every operation other than open that is invoked while the handle  *)
(* is unopened (this.db is null: open has not resolved, or it failed)      *)
(* fails at once with the error that tells so, the TypeError of using the  *)
(* null handle: the promise is rejected in the call, no request is made    *)
(* and the stored records are unchanged.                                   *)
(***************************************************************************)
C14_UnopenedRejects ==
  [][\A c \in Callers :
       (Calls(c) /\ db = "null" /\ res'[c].op \in Operations)
         => /\ res'[c].status = "rejected"
            /\ res'[c].err = "TypeError"
            /\ tx'[c] = NoTx
            /\ order' = order
            /\ patients' = patients
            /\ nextKey' = nextKey
    ]_vars

\* An update was rejected for the handle being unopened.
C14_Witness ==
  \E c \in Callers :
    /\ res[c].op = "update"
    /\ res[c].status = "rejected"
    /\ res[c].err = "TypeError"
    /\ db = "null"

(***************************************************************************)
(* C15.  Once insert has resolved with an id the write is committed.  The  *)
(* promise of an insert whose transaction is about to end has resolved,    *)
(* with the one key that the store holds and did not hold before the       *)
(* insert; when the transaction ends, the record is still stored under     *)
(* that id (so that every read that follows finds it, until it is          *)
(* deleted).                                                               *)
(***************************************************************************)
C15_ResolvedInsertIsDurable ==
  [][\A c \in Callers :
       (tx[c].op = "add" /\ tx[c].pc = "commit" /\ Steps(c))
         => \A key \in DOMAIN patients \ DOMAIN tx[c].undo.patients :
              /\ key \in DOMAIN patients'
              /\ patients'[key] = patients[key]
    ]_vars

(***************************************************************************)
(* C16.  A failed write leaves the state unchanged: a step of insert,      *)
(* update or delete that rejects the promise, in the call or in a request, *)
(* leaves the stored records and the key generator as they were, and so    *)
(* does every step of the operation before it (the get of an update).      *)
(***************************************************************************)
C16_FailedWriteChangesNothing ==
  [][\A c \in Callers :
       /\ (Calls(c) /\ res'[c].op \in Writes)
            => patients' = patients /\ nextKey' = nextKey
       /\ (tx[c].op \in Writes /\ Steps(c) /\ res[c].status = "pending"
           /\ res'[c].status # "resolved")
            => patients' = patients /\ nextKey' = nextKey
    ]_vars

\* An update was rejected by the engine, on a store that holds the record
\* it was to change.
C16_Witness ==
  \E c \in Callers :
    /\ res[c].op = "update"
    /\ res[c].status = "rejected"
    /\ res[c].err = "EngineError"
    /\ res[c].id \in DOMAIN patients
    /\ tx[c] = NoTx

(***************************************************************************)
(* C17.  Every issued operation settles.  The engine ends every request in *)
(* success or in error, so an operation settles if each of these settles   *)
(* its promise: a promise is pending only while its operation has a        *)
(* request for the engine to serve, and no operation is left pending with  *)
(* nothing to settle it, whatever the store holds.                         *)
(***************************************************************************)
C17_EveryOperationSettles ==
  \A c \in Callers : res[c].status = "pending" => tx[c] # NoTx

\* The save of App.js is under way for caller c.
Saving(c) == tx[c].op = "save" \/ res[c].by = "save"

(***************************************************************************)
(* C20.  The save flow.  The success message, with the record's id, is     *)
(* shown only when the insert has resolved with that id; when the insert   *)
(* is rejected, after the report was exported, the next thing to happen is *)
(* the message that the record was not saved; a message of the save ends   *)
(* the save, so that one save shows one of the two and never both; and     *)
(* while no patient data is captured no save gets under way, so that none  *)
(* issues an insert, and the message that patient data is missing is shown *)
(* only then, by a step that issues nothing.                               *)
(***************************************************************************)
C20_SaveFlowMessages ==
  [][/\ (alert' # alert /\ alert'.text = "Patient record saved successfully")
          => \E c \in Callers :
               /\ res[c].op = "add" /\ res[c].by = "save"
               /\ res[c].status = "resolved"
               /\ res[c].key = alert'.id
     /\ (\E c \in Callers : res[c].by = "save" /\ res[c].status = "rejected")
          => alert'.text = "failed to save patient record"
     /\ (alert' # alert /\ alert'.text \in {"Patient record saved successfully",
                                            "failed to save patient record"})
          => /\ alert = NoAlert
             /\ \E c \in Callers : Saving(c) /\ ~Saving(c)'
     /\ currentPatientData = Null
          => \A c \in Callers : ~Saving(c)'
     /\ (alert' # alert /\ alert'.text = "Patient data not found")
          => /\ currentPatientData = Null
             /\ UNCHANGED << tx, order, res, disk >>
    ]_vars

\* The insert of a save was rejected by the engine and the user was told
\* that the record was not saved.
C20_Witness ==
  /\ alert.text = "failed to save patient record"
  /\ alert.err = "EngineError"
  /\ currentPatientData # Null

(***************************************************************************)
(* C18.  Opens issued together have one outcome.  An open that settles     *)
(* does so with the outcome of every open that settled while it was        *)
(* pending, so that no interleaving lets one caller see success and        *)
(* another failure; and the handle becomes usable only in the step in      *)
(* which an open completes.                                                *)
(***************************************************************************)
C18_ConcurrentOpensAgree ==
  [][/\ \A c \in Callers :
          (/\ tx[c].op = "init"
           /\ res[c].status = "pending"
           /\ res'[c].status \in {"resolved", "rejected"})
            => tx[c].seen \subseteq {res'[c].status}
     /\ (db = "null" /\ db' = "open") => \E c \in Callers : Resolves(c, "init")
    ]_vars

(***************************************************************************)
(* C19.  Of two updates of one record that overlap and both resolve, the   *)
(* one that commits last wins.  Transactions commit in the order of the    *)
(* calls, so an update that was in flight when another update of the same  *)
(* id resolved commits after it: when its transaction commits, the record  *)
(* stored under the id is the merged record the call has returned.         *)
(***************************************************************************)
C19_LastCommittedUpdateWins ==
  [][\A c \in Callers :
       (/\ tx[c].op = "update" /\ tx[c].pc = "commit"
        /\ tx[c].overlaps # {}
        /\ Steps(c)
        /\ UNCHANGED disk)
         => /\ tx[c].id \in DOMAIN patients'
            /\ patients'[tx[c].id] = tx[c].value
    ]_vars

\* The collection "patients", keyed by the generated id, with its lookup
\* paths on name and createdAt.
Schema ==
  /\ "patients" \in DOMAIN stores
  /\ stores["patients"].keyPath = "id"
  /\ stores["patients"].autoIncrement
  /\ stores["patients"].indexes = {"name", "createdAt"}

(***************************************************************************)
(* C21.  The handle and the schema.  The handle starts unopened; it        *)
(* changes only from unopened to ready, in the step in which an open       *)
(* resolves, and every open that resolves leaves it ready; an open that is *)
(* rejected leaves it as it was; and whenever the handle is ready the      *)
(* collection "patients" is there, keyed by the generated id and with both *)
(* lookup paths, whether this open has created it or found it.             *)
(***************************************************************************)
C21_HandleAndSchema ==
  /\ db = "null"
  /\ [](db = "open" => Schema)
  /\ [][/\ db' # db
             => /\ db = "null" /\ db' = "open"
                /\ \E c \in Callers : Resolves(c, "init")
        /\ \A c \in Callers :
             /\ Resolves(c, "init") => db' = "open"
             /\ (/\ res[c].op = "init" /\ res[c].status = "pending"
                 /\ res'[c].status = "rejected")
                  => db' = db
       ]_vars

\* An open has resolved on a database that held records already: the
\* handle is ready on a collection this open has found.
C21_Witness ==
  \E c \in Callers :
    /\ res[c].op = "init" /\ res[c].status = "resolved"
    /\ db = "open"
    /\ DOMAIN patients # {}

(***************************************************************************)
(* C22.  A search for nothing finds everything.  When the engine serves a  *)
(* search whose term is empty or only white space, the promise resolves,   *)
(* with every stored record in key order, unless the engine fails the      *)
(* request; and the search handler of the page never calls the search with *)
(* such a term.                                                            *)
(***************************************************************************)
C22_EmptyTermFindsAll ==
  [][\A c \in Callers :
       /\ (/\ Serving(c, "search", "getAll") /\ Steps(c)
           /\ trim(tx[c].searchTerm) = << >>
           /\ res'[c].status # "rejected")
            => /\ Resolves(c, "search")
               /\ res'[c].recs = GetAll(patients)
       /\ (/\ res'[c] # res[c]
           /\ res'[c].status = "pending"
           /\ res'[c].by = "searchBtn")
            => trim(tx'[c].searchTerm) # << >>
    ]_vars

(***************************************************************************)
(* C23.  Writes are serializable.  The operations in flight take effect    *)
(* one at a time, in the order of their calls: every step that changes the *)
(* stored records or the key generator is a step of the transaction that   *)
(* is first in that order, and that transaction stays first until it is    *)
(* over.  So no write comes between the read and the put of an update: the *)
(* put stores the merge of the updates with the record the store holds     *)
(* under the id at that moment, and does not bring back a record that a    *)
(* delete has removed.                                                     *)
(***************************************************************************)
C23_WritesAreSerializable ==
  [][/\ << patients, nextKey >>' # << patients, nextKey >>
          => /\ order # << >>
             /\ tx[order[1]].op \in Writes
             /\ Steps(order[1])
     /\ \A c \in Callers :
          /\ (order # << >> /\ order[1] = c /\ tx'[c] # NoTx)
               => order' # << >> /\ order'[1] = c
          /\ (tx[c].op = "update" /\ tx[c].pc = "put" /\ patients' # patients)
               => /\ tx[c].id \in DOMAIN patients
                  /\ LET updatedPatient == Merge(patients[tx[c].id], tx[c].updates)
                     IN  patients' = Put(patients, updatedPatient.id, updatedPatient)
    ]_vars

\* An update has read and put its record while a delete of the same id,
\* called after it, waits for its turn.
C23_Witness ==
  \E c, d \in Callers :
    /\ c # d
    /\ tx[c].op = "update" /\ tx[c].pc = "commit"
    /\ tx[d].op = "delete" /\ tx[d].id = tx[c].id
    /\ patients # tx[c].undo.patients

\* The methods that read.
Reads == {"getAll", "get", "search"}

(***************************************************************************)
(* C24.  Reads have no effect on the store.  Every step of getAll, getById *)
(* and search, the call, the request served and the promise resolved or    *)
(* rejected, with whatever other operation in flight, leaves the schema,   *)
(* the stored records with every field, and the key generator as they      *)
(* were.                                                                   *)
(***************************************************************************)
C24_ReadsChangeNothing ==
  [][\A c \in Callers :
       (\/ tx[c].op \in Reads /\ Steps(c)
        \/ res'[c] # res[c] /\ res'[c].op \in Reads)
         => UNCHANGED << dbVersion, stores, patients, nextKey >>
    ]_vars

\* A read by id or a search has resolved, on a store that holds records,
\* while a getAll of the other caller is in flight.
C24_Witness ==
  \E c, d \in Callers :
    /\ c # d
    /\ res[c].op \in {"get", "search"} /\ res[c].status = "resolved"
    /\ tx[d].op = "getAll"
    /\ DOMAIN patients # {}

=============================================================================
